---------------------------- MODULE Spec2Model ----------------------------
(* Model of app.py: the ImageUtils helpers (resize_img, process_image_bytes, *)
(* validate_image), the Bedrock inference wrapper and the Streamlit script  *)
(* main(), which Streamlit re-runs from the top on every user interaction.  *)
EXTENDS Integers, Sequences, FiniteSets, TLC

(***************************************************************************)
(* Bounds of the model                                                     *)
(***************************************************************************)
MaxDim == 3
MaxBound == 3
MaxClicks == 2
MaxApply == 2

(***************************************************************************)
(* Program constants                                                       *)
(***************************************************************************)
MAX_IMAGE_SIZE == 1120

\* Image edge lengths: a small dense range plus the sizes around the bound.
ScenarioDims == {400, 500, 1119, 1120, 1121, 2000, 3000, 5000}
Dims == (1..MaxDim) \cup ScenarioDims
Bounds == (1..MaxBound) \cup {MAX_IMAGE_SIZE}

(***************************************************************************)
(* Values                                                                  *)
(***************************************************************************)
\* Python's None for optional values: an optional is a sequence of length <= 1.
None == <<>>
Some(x) == <<x>>

\* PIL reports formats in upper case; NoFormat stands for img.format = None.
NoFormat == "None"
DecoderFormats == {"PNG", "JPEG"}

\* Byte strings, abstracted to what PIL sees in them: whether they decode,
\* the format the decoder reports and the pixel size.
Garbage == [ok |-> FALSE, format |-> NoFormat, w |-> 0, h |-> 0]
Pictures == [ok : {TRUE}, format : DecoderFormats, w : Dims, h : Dims]
FormatlessPictures == [ok : {TRUE}, format : {NoFormat}, w : {1, 2000}, h : {1, 2000}]
Uploads == {Garbage} \cup Pictures
AnyBytes == Uploads \cup FormatlessPictures

\* str.lower() on the format names PIL reports.
Lower(s) ==
  CASE s = "PNG" -> "png"
    [] s = "JPEG" -> "jpeg"
    [] OTHER -> s

\* base64.b64encode(...).decode() and base64.b64decode(...)
b64encode(bytes) == [b64 |-> bytes]
b64decode(str) == str.b64

\* int(a / b) for non-negative a and positive b.  The true division is exact
\* enough at image sizes for the truncation to equal floor division.
IntDiv(a, b) == a \div b

(***************************************************************************)
(* ImageUtils.resize_img                                                   *)
(***************************************************************************)
\* A plausible slip: the wide branch forgets to clamp the width.
NewSizeNoClamp(width, height, max_size) ==
  IF width > height
    THEN IF width > max_size
           THEN <<width, IntDiv(height * max_size, width)>>
           ELSE <<width, height>>
    ELSE IF height > max_size
           THEN <<IntDiv(width * max_size, height), max_size>>
           ELSE <<width, height>>

\* A plausible slip: the tall branch tests the width against the bound.
NewSizeWrongTest(width, height, max_size) ==
  IF width > height
    THEN IF width > max_size
           THEN <<max_size, IntDiv(height * max_size, width)>>
           ELSE <<width, height>>
    ELSE IF width > max_size
           THEN <<IntDiv(width * max_size, height), max_size>>
           ELSE <<width, height>>

\* A plausible slip: the scaled edge is rounded up instead of truncated.
NewSizeCeil(width, height, max_size) ==
  IF width > height
    THEN IF width > max_size
           THEN <<max_size, IntDiv(height * max_size + width - 1, width)>>
           ELSE <<width, height>>
    ELSE IF height > max_size
           THEN <<IntDiv(width * max_size + height - 1, height), max_size>>
           ELSE <<width, height>>

\* Lines 42-56: <<new_width, new_height>>.
NewSize(width, height, max_size) ==
  IF width > height
    THEN IF width > max_size
           THEN <<max_size, IntDiv(height * max_size, width)>>
           ELSE <<width, height>>
    ELSE IF height > max_size
           THEN <<IntDiv(width * max_size, height), max_size>>
           ELSE <<width, height>>

Raised(cause) == [raised |-> TRUE, cause |-> cause, value |-> None]
Returned(v) == [raised |-> FALSE, cause |-> "", value |-> Some(v)]

\* resize_img: decode, compute the size, resize, save in the decoder's format.
resize_img(b64imgstr, max_size) ==
  LET img == b64decode(b64imgstr)
      new == NewSize(img.w, img.h, max_size)
  IN  IF ~img.ok
        THEN Raised("UnidentifiedImageError: cannot identify image file")
      ELSE IF new[1] < 1 \/ new[2] < 1
        THEN Raised("ValueError: height and width must be > 0")
      ELSE IF img.format = NoFormat
        THEN Raised("ValueError: unknown file extension")
      ELSE Returned(b64encode([ok |-> TRUE, format |-> img.format,
                               w |-> new[1], h |-> new[2]]))

(***************************************************************************)
(* ImageUtils.process_image_bytes                                          *)
(***************************************************************************)
\* Lines 94-100: the format tag.
image_format_of(image_bytes) ==
  IF ~image_bytes.ok THEN "png"
  ELSE IF image_bytes.format # NoFormat THEN Lower(image_bytes.format)
  ELSE "png"

process_image_bytes(image_bytes, resize) ==
  LET image_format == image_format_of(image_bytes)
  IN  IF resize
        THEN LET resized_b64 == resize_img(b64encode(image_bytes), MAX_IMAGE_SIZE)
             IN  IF resized_b64.raised
                   THEN Raised(resized_b64.cause)
                   ELSE Returned([bytes |-> b64decode(resized_b64.value[1]),
                                  format |-> image_format])
        ELSE Returned([bytes |-> image_bytes, format |-> image_format])

(***************************************************************************)
(* ImageUtils.validate_image                                               *)
(***************************************************************************)
\* A plausible slip: the except branch returns True as well.
validate_imageAlways(image_bytes) == TRUE

validate_image(image_bytes) == image_bytes.ok

(***************************************************************************)
(* process_image_with_bedrock                                              *)
(***************************************************************************)
\* What client.converse can do: raise, or return a response object.
NoResponse == [ResponseMetadata |-> "none"]
Reply(text) == [output |-> [message |-> [content |-> <<[text |-> text]>>]]]
ExtractedText == "Date: 01/02/2024\nAmount: 500 THB"

ConverseErrors ==
  { "EndpointConnectionError", "AccessDeniedException", "ModelErrorException" }

Responses ==
  { [ResponseMetadata |-> "ok"],
    [output |-> [stopReason |-> "end_turn"]],
    [output |-> [message |-> [role |-> "assistant"]]],
    [output |-> [message |-> [content |-> <<>>]]],
    [output |-> [message |-> [content |-> <<[image |-> "bytes"]>>]]],
    Reply(""),
    Reply(ExtractedText) }

Outcomes ==
  [exc : ConverseErrors, response : {NoResponse}]
    \cup [exc : {""}, response : Responses]

\* Line 173: response["output"]["message"]["content"][0]["text"]
first_text(response) ==
  IF "output" \notin DOMAIN response THEN Raised("KeyError: 'output'")
  ELSE IF "message" \notin DOMAIN response.output THEN Raised("KeyError: 'message'")
  ELSE IF "content" \notin DOMAIN response.output.message
    THEN Raised("KeyError: 'content'")
  ELSE IF Len(response.output.message.content) = 0
    THEN Raised("IndexError: list index out of range")
  ELSE IF "text" \notin DOMAIN response.output.message.content[1]
    THEN Raised("KeyError: 'text'")
  ELSE Returned(response.output.message.content[1].text)

\* Lines 169-173: the body of the try block.
converse_text(outcome) ==
  IF outcome.exc # "" THEN Raised(outcome.exc) ELSE first_text(outcome.response)

ApiError(cause) == [message |-> "API Error: ", cause |-> cause]

\* A plausible slip: only the lookups of line 173 are caught.
process_image_with_bedrockNarrow(outcome) ==
  LET r == converse_text(outcome)
  IN  IF r.raised /\ outcome.exc = ""
        THEN [result |-> None, errors |-> <<ApiError(r.cause)>>,
              raised |-> FALSE, cause |-> ""]
      ELSE IF r.raised
        THEN [result |-> None, errors |-> <<>>, raised |-> TRUE, cause |-> r.cause]
      ELSE [result |-> r.value, errors |-> <<>>, raised |-> FALSE, cause |-> ""]

\* Lines 168-176.  result is None or Some(text); errors are the st.error
\* events of the call; raised tells whether an exception leaves the function.
process_image_with_bedrock(outcome) ==
  LET r == converse_text(outcome)
  IN  IF r.raised
        THEN [result |-> None, errors |-> <<ApiError(r.cause)>>,
              raised |-> FALSE, cause |-> ""]
        ELSE [result |-> r.value, errors |-> <<>>, raised |-> FALSE, cause |-> ""]

\* Python truth value of an optional string (line 208).
Truthy(result) == result # None /\ result[1] # ""

(***************************************************************************)
(* State                                                                   *)
(***************************************************************************)
VARIABLES
  pc,             \* where the script main() stands, or in which state it ended
  uploaded_file,  \* the file_uploader widget: None or Some(bytes)
  button,         \* value st.button returns in the current run (line 201)
  processed,      \* None or Some([bytes, format]) of line 199 in this run
  outcome,        \* None or Some(what client.converse did) in this run
  result,         \* None if line 206 has not returned, else Some(its value)
  errors,         \* the st.error events of the current run, in order
  written,        \* None or Some(text) shown by st.write (line 210)
  escaped,        \* an exception left process_image_with_bedrock in this run
  clicks,         \* clicks on 'Extract Payment Information' so far
  calls,          \* client.converse calls so far
  retryOf,        \* None or Some(processed of the failed run being retried)
  u_img,          \* direct calls of the helpers: the input bytes
  u_bound,        \*   the max_size argument
  u_sizes,        \*   the sizes computed by repeated resizing
  u_call,         \*   None or Some([fn, resize]) of the call made
  u_ret           \*   None or Some(what the call did)

main_vars ==
  <<pc, uploaded_file, button, processed, outcome, result, errors, written,
    escaped, clicks, calls, retryOf>>
utils_vars == <<u_img, u_bound, u_sizes, u_call, u_ret>>
vars == <<main_vars, utils_vars>>

InvalidImage ==
  [message |-> "Invalid image file. Please upload a valid image.", cause |-> ""]
LoadingError(cause) ==
  [message |-> "An error occurred while loading the image: ", cause |-> cause]
ProcessingError(cause) ==
  [message |-> "An error occurred during processing: ", cause |-> cause]

\* States in which no script run is in progress.
Ended == {"Idle", "FailedAtUpload", "LoadError", "Normalized", "Done"}
\* Ended runs that rendered the button (reached line 201).
ButtonShown == {"Normalized", "Done"}

MainInit ==
  /\ pc = "Idle"
  /\ uploaded_file = None
  /\ button = FALSE
  /\ processed = None
  /\ outcome = None
  /\ result = None
  /\ errors = <<>>
  /\ written = None
  /\ escaped = FALSE
  /\ clicks = 0
  /\ calls = 0
  /\ retryOf = None

UtilsIdle ==
  /\ u_img = Garbage
  /\ u_bound = MAX_IMAGE_SIZE
  /\ u_sizes = <<>>
  /\ u_call = None
  /\ u_ret = None

Init == MainInit /\ UtilsIdle

\* A new script run starts from the top: its locals and its page are fresh.
Rerun(pressed) ==
  /\ pc' = "Running"
  /\ button' = pressed
  /\ processed' = None
  /\ outcome' = None
  /\ result' = None
  /\ errors' = <<>>
  /\ written' = None
  /\ escaped' = FALSE

(***************************************************************************)
(* The user                                                                *)
(***************************************************************************)
\* A file is chosen in the uploader (line 182).
Upload(image_bytes) ==
  /\ pc \in Ended
  /\ uploaded_file' = Some(image_bytes)
  /\ Rerun(FALSE)
  /\ retryOf' = None
  /\ UNCHANGED <<clicks, calls, utils_vars>>

\* The file is removed from the uploader.
Remove ==
  /\ pc \in Ended
  /\ uploaded_file # None
  /\ uploaded_file' = None
  /\ Rerun(FALSE)
  /\ retryOf' = None
  /\ UNCHANGED <<clicks, calls, utils_vars>>

\* The button 'Extract Payment Information' is clicked (line 201).
Click ==
  /\ pc \in ButtonShown
  /\ clicks < MaxClicks
  /\ clicks' = clicks + 1
  /\ Rerun(TRUE)
  /\ retryOf' = IF pc = "Done" /\ errors # <<>> THEN processed ELSE None
  /\ UNCHANGED <<uploaded_file, calls, utils_vars>>

(***************************************************************************)
(* main()                                                                  *)
(***************************************************************************)
\* Lines 184-192: no file, or read and validate it.
Validate ==
  /\ pc = "Running"
  /\ IF uploaded_file = None
       THEN /\ pc' = "Idle"
            /\ UNCHANGED errors
     ELSE IF validate_image(uploaded_file[1])
       THEN /\ pc' = "Validated"
            /\ UNCHANGED errors
     ELSE /\ pc' = "FailedAtUpload"
          /\ errors' = Append(errors, InvalidImage)
  /\ UNCHANGED <<uploaded_file, button, processed, outcome, result, written,
                 escaped, clicks, calls, retryOf, utils_vars>>

\* A plausible slip: the extraction is not guarded by the button.
NormalizeAuto ==
  /\ pc = "Validated"
  /\ LET r == process_image_bytes(uploaded_file[1], TRUE)
     IN  IF r.raised
           THEN /\ pc' = "LoadError"
                /\ errors' = Append(errors, LoadingError(r.cause))
                /\ UNCHANGED processed
           ELSE /\ processed' = r.value
                /\ pc' = "Extracting"
                /\ UNCHANGED errors
  /\ UNCHANGED <<uploaded_file, button, outcome, result, written, escaped,
                 clicks, calls, retryOf, utils_vars>>

\* Lines 195-201 and 215-216: normalise, then test the button.
Normalize ==
  /\ pc = "Validated"
  /\ LET r == process_image_bytes(uploaded_file[1], TRUE)
     IN  IF r.raised
           THEN /\ pc' = "LoadError"
                /\ errors' = Append(errors, LoadingError(r.cause))
                /\ UNCHANGED processed
           ELSE /\ processed' = r.value
                /\ pc' = IF button THEN "Extracting" ELSE "Normalized"
                /\ UNCHANGED errors
  /\ UNCHANGED <<uploaded_file, button, outcome, result, written, escaped,
                 clicks, calls, retryOf, utils_vars>>

\* Lines 202-213 when init_bedrock_client raises.
ClientFails ==
  /\ pc = "Extracting"
  /\ pc' = "Done"
  /\ errors' = Append(errors, ProcessingError("NoRegionError"))
  /\ UNCHANGED <<uploaded_file, button, processed, outcome, result, written,
                 escaped, clicks, calls, retryOf, utils_vars>>

\* A plausible slip: a failed call resets the session, dropping the upload.
ExtractResetsOnError ==
  /\ pc = "Extracting"
  /\ \E o \in Outcomes :
       LET r == process_image_with_bedrock(o)
       IN  /\ outcome' = Some(o)
           /\ calls' = calls + 1
           /\ escaped' = r.raised
           /\ result' = IF r.raised THEN None ELSE Some(r.result)
           /\ errors' = IF r.raised
                          THEN Append(errors \o r.errors, ProcessingError(r.cause))
                          ELSE errors \o r.errors
           /\ written' = IF ~r.raised /\ Truthy(r.result) THEN r.result ELSE None
           /\ uploaded_file' = IF r.result = None THEN None ELSE uploaded_file
  /\ pc' = "Done"
  /\ UNCHANGED <<button, processed, clicks, retryOf, utils_vars>>

\* Lines 202-213: the call and what is shown of its result.
Extract ==
  /\ pc = "Extracting"
  /\ \E o \in Outcomes :
       LET r == process_image_with_bedrock(o)
       IN  /\ outcome' = Some(o)
           /\ calls' = calls + 1
           /\ escaped' = r.raised
           /\ result' = IF r.raised THEN None ELSE Some(r.result)
           /\ errors' = IF r.raised
                          THEN Append(errors \o r.errors, ProcessingError(r.cause))
                          ELSE errors \o r.errors
           /\ written' = IF ~r.raised /\ Truthy(r.result) THEN r.result ELSE None
  /\ pc' = "Done"
  /\ UNCHANGED <<uploaded_file, button, processed, clicks, retryOf, utils_vars>>

Next ==
  \/ \E image_bytes \in Uploads : Upload(image_bytes)
  \/ Remove
  \/ Click
  \/ Validate
  \/ Normalize
  \/ ClientFails
  \/ Extract

Spec == Init /\ [][Next]_vars

(***************************************************************************)
(* The helpers called directly, on any bytes and any bound                 *)
(***************************************************************************)
UtilsInit ==
  /\ MainInit
  /\ u_img \in AnyBytes
  /\ u_bound \in Bounds
  /\ u_sizes = <<>>
  /\ u_call = None
  /\ u_ret = None

\* The size the next resize starts from.
CurrentSize ==
  IF u_sizes = <<>> THEN <<u_img.w, u_img.h>> ELSE u_sizes[Len(u_sizes)]

\* The size computation of resize_img applied to the current size.
ApplyNewSize ==
  /\ u_img.ok
  /\ u_call = None
  /\ Len(u_sizes) < MaxApply
  /\ u_sizes' = Append(u_sizes, NewSize(CurrentSize[1], CurrentSize[2], u_bound))
  /\ UNCHANGED <<main_vars, u_img, u_bound, u_call, u_ret>>

\* resize_img(b64, max_size)
CallResizeImg ==
  /\ u_call = None
  /\ u_sizes = <<>>
  /\ u_call' = Some([fn |-> "resize_img", resize |-> TRUE])
  /\ u_ret' = Some(resize_img(b64encode(u_img), u_bound))
  /\ UNCHANGED <<main_vars, u_img, u_bound, u_sizes>>

\* process_image_bytes(image_bytes, resize)
CallProcessImageBytes(resize) ==
  /\ u_call = None
  /\ u_sizes = <<>>
  /\ u_call' = Some([fn |-> "process_image_bytes", resize |-> resize])
  /\ u_ret' = Some(process_image_bytes(u_img, resize))
  /\ UNCHANGED <<main_vars, u_img, u_bound, u_sizes>>

UtilsNext ==
  \/ ApplyNewSize
  \/ CallResizeImg
  \/ \E resize \in BOOLEAN : CallProcessImageBytes(resize)

SpecUtils == UtilsInit /\ [][UtilsNext]_vars

(***************************************************************************)
(* Properties                                                              *)
(***************************************************************************)
Max(a, b) == IF a >= b THEN a ELSE b

\* Python round(n / d): to the nearest integer, ties to the even one.
Round(n, d) ==
  LET q == n \div d
      r == n % d
  IN  IF 2 * r < d THEN q
      ELSE IF 2 * r > d THEN q + 1
      ELSE IF q % 2 = 0 THEN q ELSE q + 1

\* C1 as stated: an image larger than the bound gets its longer edge set to
\* the bound and its shorter edge set to round(bound * shorter / longer).
C1_Rounded ==
  Len(u_sizes) >= 1 =>
    LET w == u_img.w
        h == u_img.h
        B == u_bound
    IN  /\ (w >= h /\ w > B) => u_sizes[1] = <<B, Round(B * h, w)>>
        /\ (h > w /\ h > B) => u_sizes[1] = <<Round(B * w, h), B>>

\* C1 amended: the shorter edge is truncated, floor(bound * shorter / longer),
\* so that 3000x2000 under the bound 1120 becomes 1120x746.
C1_Truncated ==
  Len(u_sizes) >= 1 =>
    LET w == u_img.w
        h == u_img.h
        B == u_bound
    IN  /\ (w >= h /\ w > B) => u_sizes[1] = <<B, (B * h) \div w>>
        /\ (h > w /\ h > B) => u_sizes[1] = <<(B * w) \div h, B>>

C1_Scenario ==
  /\ u_img.w = 3000 /\ u_img.h = 2000 /\ u_bound = MAX_IMAGE_SIZE
  /\ Len(u_sizes) >= 1
  /\ u_sizes[1] = <<1120, 746>>

\* C2: the computed size never exceeds the bound on either edge, and an
\* image already within the bound keeps its size exactly.
C2_WithinBound ==
  Len(u_sizes) >= 1 =>
    /\ Max(u_sizes[1][1], u_sizes[1][2]) <= u_bound
    /\ (u_img.w <= u_bound /\ u_img.h <= u_bound) => u_sizes[1] = <<u_img.w, u_img.h>>

C2_Scenario ==
  /\ u_img.w = 500 /\ u_img.h = 400 /\ u_bound = MAX_IMAGE_SIZE
  /\ Len(u_sizes) >= 1
  /\ u_sizes[1] = <<500, 400>>

\* C8: resizing a second time leaves the size of the first resize unchanged.
C8_Idempotent ==
  \A i \in 2..Len(u_sizes) : u_sizes[i] = u_sizes[i - 1]

C8_ResizedTwice ==
  /\ Len(u_sizes) >= 2
  /\ u_sizes[1] # <<u_img.w, u_img.h>>
  /\ u_sizes[2] = u_sizes[1]

\* C7 as stated: process_image_bytes never raises; undecodable bytes and
\* bytes without a reported format give "png", decodable bytes give the
\* decoder's format in lower case.
C7_NeverRaises ==
  (u_call # None /\ u_call[1].fn = "process_image_bytes") =>
    /\ ~u_ret[1].raised
    /\ u_ret[1].value # None
    /\ u_ret[1].value[1].format =
         IF u_img.ok /\ u_img.format = "PNG" THEN "png"
         ELSE IF u_img.ok /\ u_img.format = "JPEG" THEN "jpeg"
         ELSE "png"

\* C3: an upload that does not validate ends in the failed-at-upload state
\* with the error shown, and is neither normalised nor sent to the model.
C3_InvalidStops ==
  (uploaded_file # None /\ ~uploaded_file[1].ok) =>
    /\ pc \in {"Running", "FailedAtUpload"}
    /\ processed = None
    /\ outcome = None
    /\ result = None
    /\ pc = "FailedAtUpload" => errors = <<InvalidImage>>

C3_Rejected ==
  /\ uploaded_file = Some(Garbage)
  /\ pc = "FailedAtUpload"
  /\ errors = <<InvalidImage>>

\* C4: there are never more client.converse calls than clicks on the button.
C4_CallsNeedClicks == calls <= clicks

C4_FailedCallNotRetried ==
  /\ pc = "Done"
  /\ calls = 1
  /\ clicks = 1
  /\ result = Some(None)

\* The replies from which line 173 obtains a text.
WellFormed(o) == o.exc = "" /\ o.response \in {Reply(""), Reply(ExtractedText)}

\* C5: when the remote call fails, process_image_with_bedrock returns None,
\* shows exactly one error naming the cause, and raises nothing.
C5_FailureReported ==
  (outcome # None /\ ~WellFormed(outcome[1])) =>
    /\ result = Some(None)
    /\ ~escaped
    /\ Len(errors) = 1
    /\ errors[1].message = "API Error: "
    /\ errors[1].cause = converse_text(outcome[1]).cause
    /\ errors[1].cause # ""

C5_TransportFailure ==
  /\ pc = "Done"
  /\ outcome = Some([exc |-> "EndpointConnectionError", response |-> NoResponse])
  /\ result = Some(None)
  /\ errors = <<ApiError("EndpointConnectionError")>>

\* C6 as stated: an extraction ends either with its text displayed or with
\* an error shown, never both and never neither; it ends with the text when
\* the client returned text and with an error on an exception or an empty
\* result, the empty string included.
C6_SucceededOrFailed ==
  pc = "Done" =>
    LET Succeeded == written # None
        Failed == errors # <<>>
    IN  /\ Succeeded # Failed
        /\ (result # None /\ Truthy(result[1])) => Succeeded
        /\ (result = None \/ ~Truthy(result[1])) => Failed

\* C9: after an extraction that ended with an error the button can be
\* clicked again, and the run that click starts still has the uploaded file,
\* does not fail at upload or at loading, and extracts from the same
\* normalised bytes and format tag as the failed run.
C9_RetryAvailable ==
  /\ (pc = "Done" /\ errors # <<>> /\ clicks < MaxClicks) =>
       /\ uploaded_file # None
       /\ processed # None
       /\ ENABLED Click
  /\ retryOf # None =>
       /\ uploaded_file # None
       /\ pc \in {"Running", "Validated", "Extracting", "Done"}
       /\ pc \in {"Extracting", "Done"} => processed = retryOf

C9_Retrying ==
  /\ retryOf # None
  /\ pc = "Extracting"
  /\ processed = retryOf
  /\ calls >= 1

\* C10 as stated: a validated upload with both edges >= 1 gets a target
\* size with both edges >= 1 and reaches the normalised state.
C10_AlwaysNormalized ==
  (uploaded_file # None /\ uploaded_file[1].ok /\ pc \notin {"Running", "Validated"}) =>
    LET img == uploaded_file[1]
        new == NewSize(img.w, img.h, MAX_IMAGE_SIZE)
    IN  /\ new[1] >= 1
        /\ new[2] >= 1
        /\ pc \in {"Normalized", "Extracting", "Done"}
        /\ processed # None

=============================================================================
